---- MODULE Spec2Model ----
(***************************************************************************)
(* A model of IA-CNAM/TP01-IA: src/src/image_processor.py (the class       *)
(* ImageProcessor) and src/main.py.                                        *)
(*                                                                         *)
(* The image codec (PIL) and the filesystem (os) are the environment.  An  *)
(* image is the record of the codec calls that produced it, its pixels are *)
(* read off that record by getpixel.                                       *)
(***************************************************************************)
EXTENDS Integers, Sequences, FiniteSets, TLC

(***************************************************************************)
(* Python arithmetic.  size / width is a true division: the quotient of    *)
(* two ints correctly rounded to an IEEE-754 double (53 significant bits,  *)
(* round half to even).  height * <float> converts height exactly and      *)
(* rounds the product the same way.  int() truncates toward zero.          *)
(* A positive double is [bits, exp]: bits is the significand, most         *)
(* significant bit first and equal to 1, and the value is bits * 2^exp.    *)
(* The significand is a sequence because it does not fit a machine int.    *)
(***************************************************************************)
MantBits == 53

\* The product is taken limb by limb: the significand padded to LimbCount
\* limbs of LimbBits bits.
LimbBits == 11

LimbCount == 5

RECURSIVE Pow2(_)
Pow2(n) == IF n <= 0 THEN 1 ELSE 2 * Pow2(n - 1)

Abs(x) == IF x < 0 THEN -x ELSE x

Sign(x) == IF x < 0 THEN -1 ELSE IF x = 0 THEN 0 ELSE 1

\* The largest k with d * 2^k <= n, for n >= d >= 1.
RECURSIVE ShiftUp(_, _)
ShiftUp(n, d) == IF 2 * d <= n THEN 1 + ShiftUp(n, 2 * d) ELSE 0

\* The least k with n * 2^k >= d, for n >= 1.
RECURSIVE ShiftDown(_, _)
ShiftDown(n, d) == IF n >= d THEN 0 ELSE 1 + ShiftDown(2 * n, d)

\* 2^j modulo m, by repeated squaring.
RECURSIVE PowMod(_, _)
PowMod(j, m) ==
    IF j = 0 THEN 1 % m
    ELSE LET r == PowMod(j \div 2, m)
         IN  IF j % 2 = 0 THEN (r * r) % m ELSE (2 * ((r * r) % m)) % m

\* The value of bits[from..to], most significant first (at most 31 bits).
RECURSIVE BitsValue(_, _, _)
BitsValue(bits, from, to) ==
    IF to < from THEN 0 ELSE 2 * BitsValue(bits, from, to - 1) + bits[to]

\* The width binary digits of n, most significant first.
ToBits(n, width) == [j \in 1..width |-> (n \div Pow2(width - j)) % 2]

\* The number of binary digits of n >= 0 (0 for 0).
RECURSIVE BitLength(_)
BitLength(n) == IF n = 0 THEN 0 ELSE 1 + BitLength(n \div 2)

\* bits + 1 on a significand: the last 0 becomes 1 and the 1s after it 0; a
\* significand of 1s alone becomes 1 0...0 with the exponent one higher.
\* up is TRUE when the discarded part is above one half, or exactly one half
\* with an odd last kept bit (round half to even).
RoundBits(bits, exp, up) ==
    LET zeros == {i \in 1..Len(bits) : bits[i] = 0}
        last  == CHOOSE i \in zeros : \A j \in zeros : j <= i
    IN  IF ~up THEN [bits |-> bits, exp |-> exp]
        ELSE IF zeros = {}
        THEN [bits |-> [i \in 1..Len(bits) |-> IF i = 1 THEN 1 ELSE 0],
              exp |-> exp + 1]
        ELSE [bits |-> [i \in 1..Len(bits) |->
                          IF i < last THEN bits[i] ELSE IF i = last THEN 1 ELSE 0],
              exp |-> exp]

\* n / d for ints n >= 1, d >= 1, correctly rounded: long division, the
\* remainder after j quotient bits past the first being (r0 * 2^j) mod den.
FloatDiv(n, d) ==
    LET up     == IF n >= d THEN ShiftUp(n, d) ELSE 0
        down   == IF n >= d THEN 0 ELSE ShiftDown(n, d)
        num    == n * Pow2(down)
        den    == d * Pow2(up)
        r0     == num - den
        Rem(j) == (r0 * PowMod(j, den)) % den
        bits   == [i \in 1..MantBits |->
                     IF i = 1 THEN 1 ELSE (2 * Rem(i - 2)) \div den]
        left   == Rem(MantBits - 1)
    IN  RoundBits(bits, up - down - (MantBits - 1),
                  2 * left > den \/ (2 * left = den /\ bits[MantBits] = 1))

\* The limbs of k * m, least significant first, and the carry out of the top
\* one; m is given by its limbs, least significant first.
RECURSIVE MulLimbs(_, _, _)
MulLimbs(k, limbs, count) ==
    IF count = 0 THEN [limbs |-> <<>>, carry |-> 0]
    ELSE LET low == MulLimbs(k, limbs, count - 1)
             t   == k * limbs[count] + low.carry
         IN  [limbs |-> Append(low.limbs, t % Pow2(LimbBits)),
              carry |-> t \div Pow2(LimbBits)]

\* k * f for an int k >= 1 and a positive double f, correctly rounded.
FloatMul(k, f) ==
    LET width  == LimbBits * LimbCount
        padded == [i \in 1..width |-> IF i <= MantBits THEN f.bits[i] ELSE 0]
        limbs  == [c \in 1..LimbCount |->
                     BitsValue(padded, width - c * LimbBits + 1,
                               width - (c - 1) * LimbBits)]
        p      == MulLimbs(k, limbs, LimbCount)
        top    == BitLength(p.carry)
        len    == top + width
        prod   == [i \in 1..len |->
                     IF i <= top THEN ToBits(p.carry, top)[i]
                     ELSE ToBits(p.limbs[LimbCount - ((i - top - 1) \div LimbBits)],
                                 LimbBits)[((i - top - 1) % LimbBits) + 1]]
        kept   == [i \in 1..MantBits |-> prod[i]]
        half   == prod[MantBits + 1] = 1
        rest   == \E j \in (MantBits + 2)..len : prod[j] = 1
    IN  RoundBits(kept, f.exp - (width - MantBits) + (len - MantBits),
                  half /\ (rest \/ kept[MantBits] = 1))

\* int(f) for a positive double f below 2^31: the bits left of the binary
\* point.
FloatToInt(f) ==
    LET keep == Len(f.bits) + f.exp
    IN  IF keep <= 0 THEN 0 ELSE BitsValue(f.bits, 1, keep)

\* Scaled with the quotient rounded to the nearest integer instead.
Scaled_rounded(side, size, other) ==
    LET n == side * size
        q == n \div other
        r == n % other
    IN  IF 2 * r > other \/ (2 * r = other /\ q % 2 = 1) THEN q + 1 ELSE q

\* int(side * (size / other)) as Python evaluates it, for side, other >= 1.
Scaled(side, size, other) ==
    IF size = 0 THEN 0
    ELSE Sign(size) * FloatToInt(FloatMul(side, FloatDiv(Abs(size), other)))

(***************************************************************************)
(* Images.  A decoded file, the result of Image.resize and the canvas of   *)
(* Image.new (with what was pasted on it) are told apart by data.op.       *)
(***************************************************************************)
NoImage == [size |-> <<0, 0>>, mode |-> "none", data |-> [op |-> "none"]]

\* Image.open(path) of a file the codec decodes.
Opened(name, width, height, mode) ==
    [size |-> <<width, height>>, mode |-> mode,
     data |-> [op |-> "open", name |-> name]]

\* img.resize((w, h)): a new image of the requested size in img's mode.
Resize(img, size) ==
    [size |-> size, mode |-> img.mode, data |-> [op |-> "resize", src |-> img]]

\* Image.new(mode, size, color): a canvas filled with color.
New(mode, size, color) ==
    [size |-> size, mode |-> mode,
     data |-> [op |-> "new", color |-> color, pasted |-> <<>>]]

\* canvas.paste(img, box): img's pixels over the canvas's from box on.
Paste(canvas, img, box) ==
    [canvas EXCEPT !.data.pasted = Append(@, [im |-> img, box |-> box])]

Inside(size, px, py) == px >= 0 /\ px < size[1] /\ py >= 0 /\ py < size[2]

\* The pixel of img at (px, py): the ink of a canvas where nothing was pasted,
\* the pasted image's pixel where something was, and for a decoded or resized
\* raster the raster's own pixel, named by its place.
RECURSIVE getpixel(_, _, _)
getpixel(img, px, py) ==
    IF img.data.op = "new"
    THEN LET over == {k \in 1..Len(img.data.pasted) :
                        Inside(img.data.pasted[k].im.size,
                               px - img.data.pasted[k].box[1],
                               py - img.data.pasted[k].box[2])}
             k    == CHOOSE k \in over : \A j \in over : j <= k
         IN  IF over = {} THEN [ink |-> img.data.color]
             ELSE getpixel(img.data.pasted[k].im,
                           px - img.data.pasted[k].box[1],
                           py - img.data.pasted[k].box[2])
    ELSE [of |-> img.data, at |-> <<px, py>>]

(***************************************************************************)
(* ImageProcessor                                                          *)
(***************************************************************************)
TARGET_SIZE == 640

OUTPUT_FOLDER == "dataset"

DefaultPadColor == <<114, 114, 114>>

VARIABLES
    source_folder,  \* self.source_folder
    target_size,    \* self.target_size
    now,            \* the clock datetime.now() reads, in ticks
    dirs,           \* the directories that exist at and under OUTPUT_FOLDER
    disk,           \* the output files: save path -> image saved
    pc,             \* "idle", or the place inside the running call
    output_dir,     \* process_images_in_folder's local
    entries,        \* the os.listdir result being iterated
    i,              \* the place of the for loop in entries
    last,           \* the last call that returned or raised, and the
                    \* source folder it set or read
    run,            \* the running (or last) batch: the folder it read and the
                    \* directories it made
    opened,         \* the paths that batch gave to Image.open, in order
    saved,          \* the paths that batch saved to, in order
    img,            \* the argument of a direct resize_to_square/apply_padding call
    dimension,      \* the dimension argument of a direct resize_to_square call
    ret             \* the last such call: its argument image and pad colour,
                    \* and the image it returned

vars == <<source_folder, target_size, now, dirs, disk, pc, output_dir, entries,
          i, last, run, opened, saved, img, dimension, ret>>

\* new_size with the scaled side rounded up instead.
new_size_rounded_up(width, height, arg) ==
    LET size == IF arg # 0 THEN arg ELSE target_size
    IN  IF width > height THEN <<size, -((-(height * size)) \div width)>>
        ELSE IF height > width THEN <<-((-(width * size)) \div height), size>>
        ELSE <<size, size>>

\* The new (width, height) of resize_to_square, lines 74-84.
new_size(width, height, arg) ==
    LET size == IF arg # 0 THEN arg ELSE target_size
    IN  IF width > height THEN <<size, Scaled(height, size, width)>>
        ELSE IF height > width THEN <<Scaled(width, size, height), size>>
        ELSE <<size, size>>

resize_to_square(im, arg) == Resize(im, new_size(im.size[1], im.size[2], arg))

\* apply_padding without the early return for a square image.
apply_padding_always(resized_img, pad_color) ==
    LET color      == IF resized_img.mode = "RGB" THEN pad_color ELSE <<114>>
        square_img == New(resized_img.mode, <<target_size, target_size>>, color)
    IN  Paste(square_img, resized_img, <<0, 0>>)

\* apply_padding with the canvas as large as the image's longer side.
apply_padding_fitted(resized_img, pad_color) ==
    IF resized_img.size[1] = resized_img.size[2] THEN resized_img
    ELSE LET color      == IF resized_img.mode = "RGB" THEN pad_color ELSE <<114>>
             side       == IF resized_img.size[1] > resized_img.size[2]
                           THEN resized_img.size[1] ELSE resized_img.size[2]
             square_img == New(resized_img.mode, <<side, side>>, color)
         IN  Paste(square_img, resized_img, <<0, 0>>)

\* apply_padding with the image pasted at the centre of the canvas.
apply_padding_centered(resized_img, pad_color) ==
    IF resized_img.size[1] = resized_img.size[2] THEN resized_img
    ELSE LET color      == IF resized_img.mode = "RGB" THEN pad_color ELSE <<114>>
             square_img == New(resized_img.mode, <<target_size, target_size>>, color)
         IN  Paste(square_img, resized_img,
                   <<(target_size - resized_img.size[1]) \div 2,
                     (target_size - resized_img.size[2]) \div 2>>)

apply_padding(resized_img, pad_color) ==
    IF resized_img.size[1] = resized_img.size[2] THEN resized_img
    ELSE LET color      == IF resized_img.mode = "RGB" THEN pad_color ELSE <<114>>
             square_img == New(resized_img.mode, <<target_size, target_size>>, color)
         IN  Paste(square_img, resized_img, <<0, 0>>)

(***************************************************************************)
(* The environment: the clock, the source tree and the codec's verdict on  *)
(* each file.                                                              *)
(***************************************************************************)
\* The model's clock stops at MaxClock ticks.
MaxClock == 3

\* Clock ticks in one second, the resolution of DATE_FORMAT.
TicksPerSecond == 2

\* The largest small target size a processor is constructed with.
MaxSize == 2

\* datetime.now().strftime("%Y%m%d%H%M%S"): the clock cut to whole seconds.
strftime(t) == t \div TicksPerSecond

\* os.path.join(dir, name) and os.path.basename of such a path.
join(dir, name) == [dir |-> dir, name |-> name]

basename(path) == path.name

\* A directory entry: its name, what Image.open makes of it (NoImage: the
\* codec cannot decode it, and open raises), and whether img.save can encode
\* it under that name (not so: save raises).
File(name, image, encodes) == [name |-> name, image |-> image, encodes |-> encodes]

\* The source tree.  Every other path is no directory.
Tree ==
    [p \in {"input_images", "mixed", "empty"} |->
        CASE p = "input_images" ->
                {File("wide.png", Opened("wide.png", 800, 400, "RGB"), TRUE),
                 File("tall.png", Opened("tall.png", 3, 5, "L"), TRUE)}
          [] p = "mixed" ->
                {File("logo.png", Opened("logo.png", 64, 64, "RGB"), TRUE),
                 File("notes.txt", NoImage, FALSE),
                 File("scan", Opened("scan", 308, 154, "L"), FALSE)}
          [] OTHER -> {}]

\* The paths a caller passes: the directories, the constructor's default ""
\* and a path that names a file.
Paths == DOMAIN Tree \cup {"", "input_images/wide.png"}

isdir(path) == path \in DOMAIN Tree

\* os.listdir: the entries in an order the filesystem chooses.
Listings(path) ==
    {order \in [1..Cardinality(Tree[path]) -> Tree[path]] :
        \A a, b \in DOMAIN order : a # b => order[a] # order[b]}

TargetSizes == ((-1)..MaxSize) \cup {TARGET_SIZE}

NoRun == [folder |-> "", made |-> {}]

NoDir == [base |-> "", stamp |-> -1]

NoCall == [op |-> "none", arg |-> NoImage, color |-> <<>>, value |-> NoImage]

\* ImageProcessor(source_folder, target_size), lines 26-30.
ImageProcessor(folder, size) ==
    /\ source_folder = folder
    /\ target_size = size

\* main(), src/main.py: the processor of <cwd>/input_images at the default
\* size, whose batch Next then runs.
main == ImageProcessor("input_images", TARGET_SIZE)

Init ==
    /\ \/ main
       \/ \E folder \in Paths, size \in TargetSizes : ImageProcessor(folder, size)
    /\ now = 0
    /\ dirs = {}
    /\ disk = <<>>
    /\ pc = "idle"
    /\ output_dir = NoDir
    /\ entries = <<>>
    /\ i = 0
    /\ last = [op |-> "__init__", folder |-> source_folder, raised |-> "none"]
    /\ run = NoRun
    /\ opened = <<>>
    /\ saved = <<>>
    /\ img = NoImage
    /\ dimension = 0
    /\ ret = NoCall

\* Time passes, at any point of a call or between calls.
Tick ==
    /\ now < MaxClock
    /\ now' = now + 1
    /\ UNCHANGED <<source_folder, target_size, dirs, disk, pc, output_dir,
                   entries, i, last, run, opened, saved, img, dimension, ret>>

\* set_source_folder refusing a path that is no directory.
set_source_folder_checked(path) ==
    /\ pc = "idle"
    /\ IF isdir(path)
       THEN /\ source_folder' = path
            /\ last' = [op |-> "set_source_folder", folder |-> path, raised |-> "none"]
       ELSE /\ source_folder' = source_folder
            /\ last' = [op |-> "set_source_folder", folder |-> path,
                        raised |-> "ValueError"]
    /\ UNCHANGED <<target_size, now, dirs, disk, pc, output_dir, entries, i,
                   run, opened, saved, img, dimension, ret>>

set_source_folder(path) ==
    /\ pc = "idle"
    /\ source_folder' = path
    /\ last' = [op |-> "set_source_folder", folder |-> path, raised |-> "none"]
    /\ UNCHANGED <<target_size, now, dirs, disk, pc, output_dir, entries, i,
                   run, opened, saved, img, dimension, ret>>

create_output_folder == [base |-> OUTPUT_FOLDER, stamp |-> strftime(now)]

\* os.makedirs(path, exist_ok=True): the directory and, above it, its base.
makedirs(path) == {[base |-> path.base], path}

\* process_images_in_folder making the output directory before the check.
process_images_in_folder_unchecked_makedirs ==
    /\ pc = "idle"
    /\ output_dir' = create_output_folder
    /\ dirs' = dirs \cup makedirs(output_dir')
    /\ opened' = <<>>
    /\ saved' = <<>>
    /\ IF ~isdir(source_folder)
       THEN /\ last' = [op |-> "process_images_in_folder",
                        folder |-> source_folder, raised |-> "ValueError"]
            /\ run' = NoRun
            /\ UNCHANGED <<pc, entries, i>>
       ELSE /\ \E order \in Listings(source_folder) : entries' = order
            /\ i' = 1
            /\ pc' = "loop"
            /\ run' = [folder |-> source_folder, made |-> makedirs(output_dir') \ dirs]
            /\ UNCHANGED last
    /\ UNCHANGED <<source_folder, target_size, now, disk, img, dimension, ret>>

\* process_images_in_folder up to the loop, lines 35-44: the check of the
\* source folder, the output directory, the listing.
process_images_in_folder ==
    /\ pc = "idle"
    /\ IF ~isdir(source_folder)
       THEN /\ last' = [op |-> "process_images_in_folder",
                        folder |-> source_folder, raised |-> "ValueError"]
            /\ run' = NoRun
            /\ opened' = <<>>
            /\ saved' = <<>>
            /\ UNCHANGED <<dirs, pc, output_dir, entries, i>>
       ELSE /\ output_dir' = create_output_folder
            /\ dirs' = dirs \cup makedirs(output_dir')
            /\ \E order \in Listings(source_folder) : entries' = order
            /\ i' = 1
            /\ pc' = "loop"
            /\ run' = [folder |-> source_folder, made |-> makedirs(output_dir') \ dirs]
            /\ opened' = <<>>
            /\ saved' = <<>>
            /\ UNCHANGED last
    /\ UNCHANGED <<source_folder, target_size, now, disk, img, dimension, ret>>

\* store_image saving under the output folder itself, not the run's directory.
store_image_flat(im, original_img_path, dir) ==
    LET img_name  == basename(original_img_path)
        save_path == join([base |-> dir.base], img_name)
    IN  /\ disk' = [p \in DOMAIN disk \cup {save_path} |->
                       IF p = save_path THEN im ELSE disk[p]]
        /\ saved' = Append(saved, save_path)

\* store_image, lines 125-127.
store_image(im, original_img_path, dir) ==
    LET img_name  == basename(original_img_path)
        save_path == join(dir, img_name)
    IN  /\ disk' = [p \in DOMAIN disk \cup {save_path} |->
                       IF p = save_path THEN im ELSE disk[p]]
        /\ saved' = Append(saved, save_path)

\* process_single_image with the error of open or save caught and the entry
\* skipped.
process_single_image_skipping ==
    /\ pc = "loop"
    /\ i <= Len(entries)
    /\ LET img_file   == entries[i]
           image_path == join(source_folder, img_file.name)
           file       == img_file.image
           resized    == resize_to_square(file, 0)
           padded     == apply_padding(resized, DefaultPadColor)
       IN  /\ opened' = Append(opened, image_path)
           /\ IF file = NoImage \/ ~img_file.encodes
              THEN UNCHANGED <<disk, saved>>
              ELSE store_image(padded, image_path, output_dir)
           /\ i' = i + 1
           /\ UNCHANGED <<pc, last>>
    /\ UNCHANGED <<source_folder, target_size, now, dirs, output_dir, entries,
                   run, img, dimension, ret>>

\* One turn of the loop, lines 44-46, with process_single_image, lines 55-58.
\* An error of open or of save leaves the call.
process_single_image ==
    /\ pc = "loop"
    /\ i <= Len(entries)
    /\ LET img_file   == entries[i]
           image_path == join(source_folder, img_file.name)
           file       == img_file.image
           resized    == resize_to_square(file, 0)
           padded     == apply_padding(resized, DefaultPadColor)
       IN  /\ opened' = Append(opened, image_path)
           /\ IF file = NoImage
              THEN /\ pc' = "idle"
                   /\ last' = [op |-> "process_images_in_folder",
                               folder |-> source_folder,
                               raised |-> "UnidentifiedImageError"]
                   /\ UNCHANGED <<disk, saved, i>>
              ELSE IF ~img_file.encodes
              THEN /\ pc' = "idle"
                   /\ last' = [op |-> "process_images_in_folder",
                               folder |-> source_folder, raised |-> "ValueError"]
                   /\ UNCHANGED <<disk, saved, i>>
              ELSE /\ store_image(padded, image_path, output_dir)
                   /\ i' = i + 1
                   /\ UNCHANGED <<pc, last>>
    /\ UNCHANGED <<source_folder, target_size, now, dirs, output_dir, entries,
                   run, img, dimension, ret>>

\* The loop is over and process_images_in_folder returns.
process_images_return ==
    /\ pc = "loop"
    /\ i > Len(entries)
    /\ pc' = "idle"
    /\ last' = [op |-> "process_images_in_folder", folder |-> source_folder,
                raised |-> "none"]
    /\ UNCHANGED <<source_folder, target_size, now, dirs, disk, output_dir,
                   entries, i, run, opened, saved, img, dimension, ret>>

Next ==
    \/ Tick
    \/ \E path \in Paths : set_source_folder(path)
    \/ process_images_in_folder
    \/ process_single_image
    \/ process_images_return

Spec == Init /\ [][Next]_vars

(***************************************************************************)
(* resize_to_square and apply_padding called directly, on a processor and  *)
(* an image drawn from bounded sets.                                       *)
(***************************************************************************)
\* The largest width and height of the small images drawn.
MaxDim == 10

\* The largest dimension argument drawn, besides TARGET_SIZE.
MaxDimension == 5

\* The largest width, height and target size drawn where pixels are read.
MaxPixels == 3

Modes == {"RGB", "L", "RGBA", "LAB"}

PadColors == {DefaultPadColor, <<0, 0, 0>>}

\* The images of the source tree.
TreeImages ==
    {f.image : f \in {f \in UNION {Tree[p] : p \in DOMAIN Tree} : f.image # NoImage}}

call_resize_to_square ==
    /\ ret.op = "none"
    /\ ret' = [op |-> "resize_to_square", arg |-> img, color |-> <<>>,
               value |-> resize_to_square(img, dimension)]
    /\ UNCHANGED <<source_folder, target_size, now, dirs, disk, pc, output_dir,
                   entries, i, last, run, opened, saved, img, dimension>>

\* apply_padding on the image drawn or on what resize_to_square returned.
call_apply_padding ==
    /\ ret.op \in {"none", "resize_to_square"}
    /\ \E pad_color \in PadColors :
          LET resized_img == IF ret.op = "none" THEN img ELSE ret.value
          IN  ret' = [op |-> "apply_padding", arg |-> resized_img,
                      color |-> pad_color,
                      value |-> apply_padding(resized_img, pad_color)]
    /\ UNCHANGED <<source_folder, target_size, now, dirs, disk, pc, output_dir,
                   entries, i, last, run, opened, saved, img, dimension>>

NextCall ==
    \/ call_resize_to_square
    \/ call_apply_padding

InitCall(sizes, images, dimensions) ==
    /\ \E size \in sizes : ImageProcessor("", size)
    /\ now = 0
    /\ dirs = {}
    /\ disk = <<>>
    /\ pc = "idle"
    /\ output_dir = NoDir
    /\ entries = <<>>
    /\ i = 0
    /\ last = [op |-> "__init__", folder |-> source_folder, raised |-> "none"]
    /\ run = NoRun
    /\ opened = <<>>
    /\ saved = <<>>
    /\ img \in images
    /\ dimension \in dimensions
    /\ ret = NoCall

\* Sizes only: small images and those of the source tree, at small target
\* sizes and at the default.
InitResize ==
    InitCall(TargetSizes,
             {Opened("im", w, h, "RGB") : w \in 1..MaxDim, h \in 1..MaxDim}
                 \cup TreeImages,
             ((-1)..MaxDimension) \cup {TARGET_SIZE})

SpecResize == InitResize /\ [][NextCall]_vars

\* Pixels: images and target sizes small enough to read every pixel.
InitPad ==
    InitCall((-1)..MaxPixels,
             {Opened("im", w, h, m) : w \in 1..MaxPixels, h \in 1..MaxPixels, m \in Modes},
             (-1)..MaxPixels)

SpecPad == InitPad /\ [][NextCall]_vars

(***************************************************************************)
(* The claims about resize_to_square and apply_padding.                    *)
(***************************************************************************)
\* The size resize_to_square works with: the dimension given, else target_size.
EffectiveSize == IF dimension # 0 THEN dimension ELSE target_size

Square(im) == im.size[1] = im.size[2]

Longer(im) == IF im.size[1] > im.size[2] THEN im.size[1] ELSE im.size[2]

Shorter(im) == IF im.size[1] > im.size[2] THEN im.size[2] ELSE im.size[1]

\* The side of the result that is scaled, and the side that is set to the size.
ScaledSide == IF img.size[1] > img.size[2] THEN ret.value.size[2] ELSE ret.value.size[1]

FixedSide == IF img.size[1] > img.size[2] THEN ret.value.size[1] ELSE ret.value.size[2]

Resized == ret.op = "resize_to_square"

\* n / d (d > 0) rounded to the nearest integer, a half to the even one, as
\* Python's round does.
RoundedQuotient(n, d) ==
    LET q == n \div d
        r == n % d
    IN  IF 2 * r > d \/ (2 * r = d /\ q % 2 = 1) THEN q + 1 ELSE q

\* C1 as stated (at a positive size): the shorter side of the result is
\* round(shorter * s / longer).
C1_ShorterSideRounded ==
    (Resized /\ ~Square(img) /\ EffectiveSize > 0) =>
        /\ FixedSide = EffectiveSize
        /\ ScaledSide = RoundedQuotient(Shorter(img) * EffectiveSize, Longer(img))

\* C1, amended: resize_to_square of a non-square image returns the longer side
\* equal to the effective size s and the shorter side equal to
\* int(shorter * (s / longer)), which is truncated toward zero and not rounded:
\* with q the whole part of shorter * |s| / longer, the shorter side is q with
\* the sign of s, or one less in magnitude, and this only where
\* shorter * s / longer is a whole number while s / longer is not.
C1_ShorterSideTruncated ==
    (Resized /\ ~Square(img)) =>
        LET a == Shorter(img) * Abs(EffectiveSize)
            q == a \div Longer(img)
            m == Abs(ScaledSide)
        IN  /\ FixedSide = EffectiveSize
            /\ ScaledSide = Sign(EffectiveSize) * m
            /\ \/ m = q
               \/ /\ m = q - 1
                  /\ a % Longer(img) = 0
                  /\ Abs(EffectiveSize) % Longer(img) # 0

\* C1's case, where the double product falls short of the whole quotient:
\* 308x154 at the default size comes out 640x319.
C1_Witness ==
    /\ Resized
    /\ img.size = <<308, 154>>
    /\ EffectiveSize = TARGET_SIZE
    /\ ret.value.size = <<640, 319>>

\* C8: for a non-square image and a positive size, exactly one side of the
\* result of resize_to_square equals the size: the longer one, and the scaled
\* shorter side never does.
C8_ExactlyOneSideIsSize ==
    (Resized /\ ~Square(img) /\ EffectiveSize > 0) =>
        /\ FixedSide = EffectiveSize
        /\ ScaledSide # EffectiveSize
        /\ Cardinality({k \in 1..2 : ret.value.size[k] = EffectiveSize}) = 1
        /\ (img.size[1] > img.size[2]) = (ret.value.size[1] > ret.value.size[2])

\* C8's case: the shorter side scaled to just below the size.
C8_Witness ==
    /\ Resized
    /\ img.size = <<4, 3>>
    /\ dimension = 2
    /\ ret.value.size = <<2, 1>>

\* C3 as stated (on a processor of positive target size, at a dimension that
\* is not negative): resize_to_square of a square image returns
\* (target_size, target_size).
C3_SquareResizedToTargetSize ==
    (Resized /\ Square(img) /\ target_size > 0 /\ dimension >= 0) =>
        ret.value.size = <<target_size, target_size>>

\* C3, amended: resize_to_square of a square image returns (s, s) for the
\* effective size s, which is (target_size, target_size) when no dimension (or
\* 0) is given; and apply_padding of a square image returns that same image,
\* and no canvas.
C3_SquareResizedAndNotPadded ==
    /\ (Resized /\ Square(img)) =>
          /\ ret.value.size = <<EffectiveSize, EffectiveSize>>
          /\ dimension = 0 => ret.value.size = <<target_size, target_size>>
    /\ (ret.op = "apply_padding" /\ Square(ret.arg)) =>
          /\ ret.value = ret.arg
          /\ ret.value.data.op # "new"

\* C3's case: a square image resized to the target size, then padded.
C3_Witness ==
    /\ ret.op = "apply_padding"
    /\ Square(img)
    /\ img.size[1] # target_size
    /\ dimension = 0
    /\ ret.arg.data.op = "resize"
    /\ ret.arg.size = <<target_size, target_size>>
    /\ ret.value = ret.arg

\* C10: apply_padding takes its canvas from target_size, never from the
\* dimension given to resize_to_square: a non-square image resized with a
\* dimension d other than target_size and then padded comes out as a
\* (target_size, target_size) canvas, smaller than the resized image when
\* d > target_size; and resize_to_square with no dimension (or 0) takes
\* target_size as the size.
C10_CanvasFromTargetSize ==
    /\ (ret.op = "apply_padding" /\ ret.arg.data.op = "resize" /\ ~Square(img)
          /\ dimension # 0 /\ dimension # target_size) =>
          /\ ret.value.data.op = "new"
          /\ ret.value.size = <<target_size, target_size>>
          /\ Longer(ret.arg) = dimension \/ dimension < 0
          /\ dimension > target_size =>
                /\ Longer(ret.arg) > ret.value.size[1]
                /\ Longer(ret.arg) > ret.value.size[2]
    /\ (Resized /\ dimension = 0 /\ ~Square(img)) => FixedSide = target_size

\* C10's case: resized to 3, padded on a canvas of 2.
C10_Witness ==
    /\ ret.op = "apply_padding"
    /\ ret.arg.data.op = "resize"
    /\ dimension = 3
    /\ target_size = 2
    /\ ret.arg.size = <<3, 1>>
    /\ ret.value.size = <<2, 2>>

\* The channels of a codec mode.
Bands(mode) ==
    CASE mode = "RGB" -> 3 [] mode = "LAB" -> 3 [] mode = "RGBA" -> 4 [] OTHER -> 1

Padded == ret.op = "apply_padding" /\ ~Square(ret.arg)

\* The canvas is (target_size, target_size) in the argument's mode, the
\* argument's pixels from (0, 0) on, and ink everywhere else.
CanvasIs(ink) ==
    /\ ret.value.size = <<target_size, target_size>>
    /\ ret.value.mode = ret.arg.mode
    /\ \A px \in 0..(target_size - 1), py \in 0..(target_size - 1) :
          getpixel(ret.value, px, py) =
              IF Inside(ret.arg.size, px, py) THEN getpixel(ret.arg, px, py)
              ELSE [ink |-> ink]

\* C2 as stated (on a processor of positive target size, with the default pad
\* colour): the ink is (114, 114, 114) when the mode has three channels and
\* 114 otherwise.
C2_InkByChannels ==
    (Padded /\ ret.color = DefaultPadColor /\ target_size > 0) =>
        CanvasIs(IF Bands(ret.arg.mode) = 3 THEN <<114, 114, 114>> ELSE <<114>>)

\* C2, amended: apply_padding of a non-square image returns a new canvas of
\* (target_size, target_size) in the image's mode, the image at its top-left
\* corner (0, 0), and every other pixel the pad colour (by default
\* (114, 114, 114)) when the mode is RGB and the one-value ink (114,) in
\* every other mode, the other three-channel modes included.
C2_InkByRGB ==
    Padded =>
        /\ ret.value.data.op = "new"
        /\ CanvasIs(IF ret.arg.mode = "RGB" THEN ret.color ELSE <<114>>)

\* C2's case: a 1x2 RGB image on a 3x3 canvas, which shows the image's pixels
\* and the pad colour.
C2_Witness ==
    /\ Padded
    /\ ret.arg.mode = "RGB"
    /\ ret.arg.size = <<1, 2>>
    /\ target_size = 3
    /\ getpixel(ret.value, 0, 1) = getpixel(ret.arg, 0, 1)
    /\ getpixel(ret.value, 1, 1) = [ink |-> DefaultPadColor]
    /\ getpixel(ret.value, 0, 2) = [ink |-> DefaultPadColor]

(***************************************************************************)
(* The claims about the batch.                                             *)
(***************************************************************************)
Batch == "process_images_in_folder"

\* The timestamped directories among a set of directories.
Stamped(made) == {d \in made : d # [base |-> OUTPUT_FOLDER]}

\* What process_single_image saves for a decoded file.
Processed(file) == apply_padding(resize_to_square(file, 0), DefaultPadColor)

Fails(entry) == entry.image = NoImage \/ ~entry.encodes

\* The first count entries of the listing were opened, in the listing's order.
OpenedInOrder(count) ==
    /\ Len(opened) = count
    /\ count <= Len(entries)
    /\ \A j \in 1..count : opened[j] = join(run.folder, entries[j].name)

\* The first count entries of the listing were saved, in the listing's order,
\* each under its own name in the output directory, and are on disk.
SavedInOrder(count) ==
    /\ Len(saved) = count
    /\ count <= Len(entries)
    /\ \A j \in 1..count :
          /\ saved[j] = join(output_dir, entries[j].name)
          /\ saved[j] \in DOMAIN disk
          /\ disk[saved[j]] = Processed(entries[j].image)

\* C4: process_images_in_folder called while source_folder is no directory
\* raises the configuration error, makes no output directory, and opens and
\* writes nothing.
C4_InvalidFolderFails ==
    [][(pc = "idle" /\ ~isdir(source_folder) /\ now' = now /\ last'.op = Batch) =>
          /\ last'.raised = "ValueError"
          /\ pc' = "idle"
          /\ dirs' = dirs
          /\ disk' = disk
          /\ opened' = <<>>
          /\ saved' = <<>>
          /\ run'.made = {}]_vars

\* C4's case: the call has failed on the path of a file, with directories and
\* files of earlier runs on disk.
C4_Witness ==
    /\ last = [op |-> Batch, folder |-> "input_images/wide.png", raised |-> "ValueError"]
    /\ pc = "idle"
    /\ opened = <<>>
    /\ Cardinality(Stamped(dirs)) = 1
    /\ Cardinality(DOMAIN disk) = 2

\* C5: the entries are processed one at a time in the listing's order, and
\* the first failure of open or save ends the call: the error leaves
\* process_images_in_folder, no later entry is processed, and the files saved
\* for the entries before it stay on disk.
C5_FailFast ==
    /\ pc = "loop" =>
          /\ OpenedInOrder(i - 1)
          /\ SavedInOrder(i - 1)
          /\ \A j \in 1..(i - 1) : ~Fails(entries[j])
    /\ (pc = "idle" /\ last.op = Batch /\ last.raised = "none") =>
          /\ OpenedInOrder(Len(entries))
          /\ \A j \in 1..Len(entries) : ~Fails(entries[j])
    /\ (pc = "idle" /\ last.op = Batch /\ last.raised # "none" /\ opened # <<>>) =>
          /\ OpenedInOrder(Len(opened))
          /\ Fails(entries[Len(opened)])
          /\ \A j \in 1..(Len(opened) - 1) : ~Fails(entries[j])
          /\ SavedInOrder(Len(opened) - 1)

\* C5's case: the second of three entries failed after the first was saved,
\* and the third was never opened.
C5_Witness ==
    /\ pc = "idle"
    /\ last.op = Batch
    /\ last.raised = "UnidentifiedImageError"
    /\ Len(entries) = 3
    /\ Len(opened) = 2
    /\ Len(saved) = 1
    /\ saved[1] \in DOMAIN disk

Completed == pc = "idle" /\ last.op = Batch /\ last.raised = "none"

\* One output file for each entry of the listing, in the run's output
\* directory and under the entry's own base name, and no other.
OneFilePerEntry ==
    /\ Len(saved) = Len(entries)
    /\ \A j \in 1..Len(entries) :
          /\ saved[j].dir = output_dir
          /\ basename(saved[j]) = entries[j].name
          /\ basename(saved[j]) = basename(opened[j])
          /\ saved[j] \in DOMAIN disk
    /\ \A j, k \in 1..Len(saved) : saved[j] = saved[k] => j = k

\* C6 as stated: a run that completes has created exactly one output
\* directory, and written one file for each entry there.
C6_OneDirectoryCreated ==
    Completed => (Stamped(run.made) = {output_dir} /\ OneFilePerEntry)

\* C6, amended: a run that completes has used exactly one output directory,
\* which it created unless a run of the same second had created it already,
\* and has written, in that directory, exactly one file for each entry of the
\* listing, under the entry's base name, and no other file.
C6_OneDirectoryUsed ==
    Completed =>
        /\ output_dir \in dirs
        /\ output_dir = [base |-> OUTPUT_FOLDER, stamp |-> output_dir.stamp]
        /\ Stamped(run.made) \in {{}, {output_dir}}
        /\ OneFilePerEntry

\* C6's case: a run of two entries completed in a directory that a run of the
\* same second had made.
C6_Witness ==
    /\ Completed
    /\ Len(entries) = 2
    /\ Len(saved) = 2
    /\ run.made = {}
    /\ output_dir \in dirs

\* C7: set_source_folder succeeds on any path, valid or not, and replaces the
\* source folder, leaving target_size alone; process_images_in_folder checks
\* and reads the folder set last, so that it fails after a path that is no
\* directory and runs after one that is, whatever failed before.
C7_FolderSetThenChecked ==
    /\ [](/\ pc = "idle" => \A path \in Paths : ENABLED set_source_folder(path)
          /\ last.op = "set_source_folder" =>
                (last.raised = "none" /\ source_folder = last.folder)
          /\ pc = "loop" =>
                (isdir(source_folder) /\ run.folder = source_folder
                   /\ entries \in Listings(source_folder))
          /\ (pc = "idle" /\ last.op = Batch) =>
                /\ last.folder = source_folder
                /\ ~isdir(source_folder) <=> (last.raised = "ValueError" /\ run = NoRun)
                /\ isdir(source_folder) => run.folder = source_folder)
    /\ [][target_size' = target_size]_vars

\* C7's case: after a failed call on the path of a file and a
\* set_source_folder, the batch runs on the folder set.
C7_Witness ==
    /\ pc = "loop"
    /\ last = [op |-> "set_source_folder", folder |-> "mixed", raised |-> "none"]
    /\ run.folder = "mixed"
    /\ source_folder = "mixed"
    /\ dirs # {}

\* C9: target_size > 0 in every state of a processor, however constructed.
C9_TargetSizePositive == target_size > 0

====
